---- MODULE Spec2Model ----
(***************************************************************************)
(* pdf2text-bot (src/bot.py): the quota ledger (tables users and usage),   *)
(* the PDF conversion and the document handler, as a state machine.        *)
(*                                                                         *)
(* Handlers are asyncio coroutines run concurrently by the dispatcher: a   *)
(* handler is interleaved with the others only where it awaits.  All       *)
(* sqlite calls are synchronous, so one action below is the code between   *)
(* two awaits of a handler.  The wall clock (today_utc_str) is read anew   *)
(* by every ledger call and may advance between two reads.                 *)
(***************************************************************************)
EXTENDS Integers, Sequences, FiniteSets, TLC

\* ------------------------------------------------------------------ bounds
MaxReqs == 2
MaxDay == 1

Reqs == 1..MaxReqs
Days == 0..MaxDay

\* ------------------------------------------------------------ environment
\* Telegram ids that interact with the bot, and the ADMIN_IDS setting.
UserIds == {1, 2}
ADMIN_IDS == {1}

\* ------------------------------------------------------------------ plans
PLANS == [FREE |-> 10, BASIC |-> 50, STANDARD |-> 120, PREMIUM |-> 300]
PAID_PLANS == {"BASIC", "STANDARD", "PREMIUM"}
\* DOCX for every plan of the registry.
DOCX_PLANS_any == DOMAIN PLANS
DOCX_PLANS == {"PREMIUM"}

\* A lookup that fails closed: no pages for a plan that is no key of PLANS.
PlanLimit_closed(plan) == IF plan \in DOMAIN PLANS THEN PLANS[plan] ELSE 0

\* PLANS.get(plan, PLANS["FREE"])
PlanLimit(plan) == IF plan \in DOMAIN PLANS THEN PLANS[plan] ELSE PLANS["FREE"]

\* str.upper() on the plan words that occur
Upper(s) ==
    CASE s = "free" -> "FREE"
      [] s = "basic" -> "BASIC"
      [] s = "standard" -> "STANDARD"
      [] s = "premium" -> "PREMIUM"
      [] s = "gold" -> "GOLD"
      [] OTHER -> s

\* ------------------------------------------------------------- DB helpers
\* Table users: a function from the user ids that have a row to their plan.
\* Table usage: a function from the (user_id, day) keys that have a row to
\* pages_used.

\* The default plan inserted in lower case.
ensure_user_lower(us, u) == IF u \in DOMAIN us THEN us ELSE us @@ (u :> "free")

\* INSERT OR REPLACE: an existing row is set back to FREE.
ensure_user_replace(us, u) == (u :> "FREE") @@ us

\* INSERT OR IGNORE INTO users(user_id, plan) VALUES (?, 'FREE')
ensure_user(us, u) == IF u \in DOMAIN us THEN us ELSE us @@ (u :> "FREE")

\* SELECT plan FROM users; (row[0] if row else "FREE").upper()
get_user_plan(us, u) == Upper(IF u \in DOMAIN us THEN us[u] ELSE "FREE")

\* No validation in set_user_plan: the word is stored as it comes.
set_user_plan_unchecked(us, u, plan) == [ensure_user(us, u) EXCEPT ![u] = plan]

\* set_user_plan: plan.upper() (the words carry no blanks to strip), then
\* ValueError("Invalid plan") before any statement for a plan not in PLANS,
\* else ensure_user and UPDATE users SET plan=? WHERE user_id=?
set_user_plan(us, u, plan) ==
    IF Upper(plan) \notin DOMAIN PLANS THEN us
    ELSE [ensure_user(us, u) EXCEPT ![u] = Upper(plan)]

\* SELECT pages_used FROM usage WHERE user_id=? AND day=?; 0 without a row
get_usage_today(ug, u, d) == IF <<u, d>> \in DOMAIN ug THEN ug[<<u, d>>] ELSE 0

\* INSERT OR IGNORE: an existing row is left as it is.
add_usage_today_ignore(ug, u, d, pages) ==
    IF <<u, d>> \in DOMAIN ug THEN ug ELSE ug @@ (<<u, d>> :> pages)

\* INSERT OR REPLACE: an existing row is overwritten.
add_usage_today_replace(ug, u, d, pages) ==
    IF <<u, d>> \in DOMAIN ug
    THEN [ug EXCEPT ![<<u, d>>] = pages]
    ELSE ug @@ (<<u, d>> :> pages)

\* The update without the user in its key: every row of the day is charged.
add_usage_today_anyuser(ug, u, d, pages) ==
    LET ug2 == IF <<u, d>> \in DOMAIN ug THEN ug ELSE ug @@ (<<u, d>> :> 0)
    IN [k \in DOMAIN ug2 |-> IF k[2] = d THEN ug2[k] + pages ELSE ug2[k]]

\* The upsert with the sign of the update wrong.
add_usage_today_refund(ug, u, d, pages) ==
    IF <<u, d>> \in DOMAIN ug
    THEN [ug EXCEPT ![<<u, d>>] = ug[<<u, d>>] - pages]
    ELSE ug @@ (<<u, d>> :> pages)

\* INSERT ... ON CONFLICT(user_id, day) DO UPDATE SET pages_used = pages_used + excluded.pages_used
add_usage_today(ug, u, d, pages) ==
    IF <<u, d>> \in DOMAIN ug
    THEN [ug EXCEPT ![<<u, d>>] = ug[<<u, d>>] + pages]
    ELSE ug @@ (<<u, d>> :> pages)

\* --------------------------------------------------------- PDF conversion
\* A string is a sequence of one-character strings.
Whitespace == {" ", "\n"}

RECURSIVE LStrip(_)
LStrip(s) == IF s # <<>> /\ Head(s) \in Whitespace THEN LStrip(Tail(s)) ELSE s

RECURSIVE RStrip(_)
RStrip(s) ==
    IF s # <<>> /\ s[Len(s)] \in Whitespace THEN RStrip(SubSeq(s, 1, Len(s) - 1)) ELSE s

\* str.strip()
Strip(s) == RStrip(LStrip(s))

\* sep.join(parts)
RECURSIVE Join(_, _)
Join(sep, parts) ==
    IF parts = <<>> THEN <<>>
    ELSE IF Len(parts) = 1 THEN parts[1]
    ELSE parts[1] \o sep \o Join(sep, Tail(parts))

\* The page counts of the uploaded documents.
PageCounts == {0, 1, 10}

\* An upload: bytes fitz cannot open, or a PDF given by its pages' text:
\* blank pages only, or a page of text followed by blank pages.
CorruptDoc == [readable |-> FALSE, pages |-> <<>>]
BlankPages(n) == [i \in 1..n |-> <<" ">>]
Docs ==
    {CorruptDoc}
    \cup {[readable |-> TRUE, pages |-> BlankPages(n)] : n \in {0, 1}}
    \cup {[readable |-> TRUE, pages |-> <<<<"a">>>> \o BlankPages(n - 1)] : n \in PageCounts \ {0}}

\* extract_text_from_pdf: (text, page_count), or the exception of fitz.open
extract_text_from_pdf(doc) ==
    IF ~doc.readable
    THEN [ok |-> FALSE, text |-> <<>>, pages |-> 0]
    ELSE [ok |-> TRUE,
          text |-> Strip(Join(<<"\n">>, doc.pages)),
          pages |-> Len(doc.pages)]

\* --------------------------------------------------------------- filenames
LowerChar(c) ==
    CASE c = "A" -> "a"
      [] c = "P" -> "p"
      [] c = "D" -> "d"
      [] c = "F" -> "f"
      [] OTHER -> c

\* str.lower()
Lower(s) == [i \in 1..Len(s) |-> LowerChar(s[i])]

\* str.endswith(suffix)
EndsWith(s, suffix) ==
    /\ Len(s) >= Len(suffix)
    /\ SubSeq(s, Len(s) - Len(suffix) + 1, Len(s)) = suffix

\* doc.file_name of the uploads; <<>> is a document without a name (None)
Filenames ==
    {<<>>,
     <<"a", ".", "p", "d", "f">>,
     <<"A", ".", "P", "D", "F">>,
     <<"a", ".", "t", "x", "t">>,
     <<"p", "d", "f">>}

\* (doc.file_name or "").lower().endswith(".pdf")
IsPdf(filename) == EndsWith(Lower(filename), <<".", "p", "d", "f">>)

\* A quota test that lets a document without pages through.
OverLimit_nonempty(used, pages, limit) == pages > 0 /\ used + pages > limit

\* A quota test that looks at the document alone.
OverLimit_pages_only(used, pages, limit) == pages > limit

\* A quota test that is off by one at the limit.
OverLimit_at_limit(used, pages, limit) == used + pages >= limit

\* the quota test of handle_document: used + pages > limit
OverLimit(used, pages, limit) == used + pages > limit

\* ------------------------------------------------------------------ state
VARIABLES
    today,    \* the UTC day today_utc_str() returns now
    users,    \* table users: user_id -> plan
    usage,    \* table usage: <<user_id, day>> -> pages_used
    req,      \* the handle_document coroutines
    accepted, \* history: per <<user_id, day>>, the pages of the accepted submissions
    cmd       \* history: the last /setplan message handled and its answer

vars == <<today, users, usage, req, accepted, cmd>>

\* A handle_document coroutine; coroutine r handles the r-th upload received.
\* pc is the await it is suspended at, or how it ended; user and plan are the
\* locals that decide what the handler does after that await (text only
\* becomes the bytes of the documents sent); debited, txt and docx record that
\* the debit is committed and which documents were sent.
Idle ==
    [pc |-> "idle", user |-> 0, plan |-> "", debited |-> FALSE, txt |-> FALSE, docx |-> FALSE]

\* No /setplan message on record.
NoCmd == [sender |-> 0, parts |-> <<>>, answer |-> ""]

\* How a handler ends: the rejections of the orchestrator, the two successes
\* and an exception (or cancellation) that leaves the handler.
Rejections == {"UnsupportedType", "Unreadable", "QuotaExceeded"}
Outcomes == Rejections \cup {"Completed", "PartialSuccess", "Aborted"}

Init ==
    /\ today = 0
    \* init_db on a fresh data.db: both tables empty
    /\ users = <<>>
    /\ usage = <<>>
    /\ req = [r \in Reqs |-> Idle]
    /\ accepted = [k \in UserIds \X Days |-> 0]
    /\ cmd = NoCmd

\* The handler with record q returns (after its last message.answer, if any):
\* its locals are gone, what it did stays on record.
Ended(q, outcome) ==
    [Idle EXCEPT !.pc = outcome, !.debited = q.debited, !.txt = q.txt, !.docx = q.docx]

\* ------------------------------------------------- handle_document, by await
\* Lines 281-292: ensure_user, the extension test, up to the await of
\* bot.get_file, or the answer "Please send a PDF file (.pdf)." and return.
Received(r) ==
    /\ req[r].pc = "idle"
    /\ \A q \in Reqs : q < r => req[q].pc # "idle"
    /\ \E u \in UserIds, filename \in Filenames :
          /\ users' = ensure_user(users, u)
          /\ req' = [req EXCEPT ![r] =
                IF IsPdf(filename)
                THEN [@ EXCEPT !.pc = "download", !.user = u]
                ELSE Ended(@, "UnsupportedType")]
    /\ UNCHANGED <<today, usage, accepted, cmd>>

\* bot.get_file / bot.download_file raises, or the task is cancelled while it
\* waits for the download: the handler ends there.
DownloadFails(r) ==
    /\ req[r].pc = "download"
    /\ req' = [req EXCEPT ![r] = Ended(@, "Aborted")]
    /\ UNCHANGED <<today, users, usage, accepted, cmd>>

\* Whether table ug2 holds, for <<u, d>>, the pages of a submission on top of
\* what table ug held: the debit of line 316 is committed.
Debited(ug, ug2, u, d, pages) ==
    /\ <<u, d>> \in DOMAIN ug2
    /\ ug2[<<u, d>>] = get_usage_today(ug, u, d) + pages

\* The debit written before the quota test.
LedgerAfter_debit_first(ug, u, ex, limit, d1, d2) ==
    IF ~ex.ok THEN ug ELSE add_usage_today(ug, u, d2, ex.pages)

\* No return after a failed extraction.
LedgerAfter_no_return(ug, u, ex, limit, d1, d2) ==
    IF OverLimit(get_usage_today(ug, u, d1), ex.pages, limit) THEN ug
    ELSE add_usage_today(ug, u, d2, ex.pages)

\* The debit left for after the documents are sent.
LedgerAfter_debit_later(ug, u, ex, limit, d1, d2) == ug

\* The usage table after lines 297-316 for user u and the extraction result
\* ex: used is read for day d1, the debit is written for day d2.
LedgerAfter(ug, u, ex, limit, d1, d2) ==
    IF ~ex.ok THEN ug
    ELSE IF OverLimit(get_usage_today(ug, u, d1), ex.pages, limit) THEN ug
    ELSE add_usage_today(ug, u, d2, ex.pages)

\* Lines 293-324: the download returns document doc, then without an await:
\* extraction, the quota check, the debit, up to the await of answer_document
\* (or the answer of a rejection and return).  get_usage_today and
\* add_usage_today read the clock one after the other: d1, then d2.
ProcessOn(r, doc, d1, d2) ==
    /\ req[r].pc = "download"
    /\ today <= d1 /\ d1 <= d2
    /\ UNCHANGED cmd
    /\ LET u == req[r].user
           ex == extract_text_from_pdf(doc)
           us == ensure_user(users, u)
           plan == get_user_plan(us, u)
           limit == PlanLimit(plan)
           used == get_usage_today(usage, u, d1)
       IN /\ usage' = LedgerAfter(usage, u, ex, limit, d1, d2)
          /\ IF ~ex.ok
             THEN /\ req' = [req EXCEPT ![r] = Ended(@, "Unreadable")]
                  /\ UNCHANGED <<today, users, accepted>>
             ELSE IF OverLimit(used, ex.pages, limit)
             THEN /\ req' = [req EXCEPT ![r] = Ended(@, "QuotaExceeded")]
                  /\ users' = us
                  /\ today' = d1
                  /\ UNCHANGED accepted
             ELSE /\ req' = [req EXCEPT ![r] =
                         [@ EXCEPT !.pc = "send_txt", !.plan = plan,
                                   !.debited = Debited(usage, usage', u, d2, ex.pages)]]
                  /\ users' = us
                  /\ today' = d2
                  /\ accepted' = [accepted EXCEPT ![<<u, d2>>] = @ + ex.pages]

Process(r) == \E doc \in Docs, d1 \in Days, d2 \in Days : ProcessOn(r, doc, d1, d2)

\* Lines 324-340: answer_document(txt) returns or raises; then, for a plan in
\* DOCX_PLANS, build_docx_bytes(text), which returns up to the await of the
\* second answer_document, or raises into the except branch ("DOCX export failed, but TXT was created successfully.").
SendTxt(r) ==
    /\ req[r].pc = "send_txt"
    /\ \E sent \in BOOLEAN, built \in BOOLEAN :
          LET q == [req[r] EXCEPT !.txt = TRUE]
          IN req' = [req EXCEPT ![r] =
                IF ~sent THEN Ended(@, "Aborted")
                ELSE IF req[r].plan \notin DOCX_PLANS THEN Ended(q, "Completed")
                ELSE IF ~built THEN Ended(q, "PartialSuccess")
                ELSE [q EXCEPT !.pc = "send_docx"]]
    /\ UNCHANGED <<today, users, usage, accepted, cmd>>

\* No except branch around the DOCX export: its failure leaves the handler.
SendDocx_fatal(r) ==
    /\ req[r].pc = "send_docx"
    /\ \E sent \in BOOLEAN :
          req' = [req EXCEPT ![r] =
              IF sent THEN Ended([@ EXCEPT !.docx = TRUE], "Completed")
              ELSE Ended(@, "Aborted")]
    /\ UNCHANGED <<today, users, usage, accepted, cmd>>

\* Lines 337-340: answer_document(docx) returns, or raises into the except
\* branch.
SendDocx(r) ==
    /\ req[r].pc = "send_docx"
    /\ \E sent \in BOOLEAN :
          req' = [req EXCEPT ![r] =
              IF sent THEN Ended([@ EXCEPT !.docx = TRUE], "Completed")
              ELSE Ended(@, "PartialSuccess")]
    /\ UNCHANGED <<today, users, usage, accepted, cmd>>

\* ------------------------------------------------------------- commands
\* message.text.split() of the /setplan messages
PlanWords == {"FREE", "premium", "gold"}
SetplanParts ==
    {<<"/setplan", "2">>, <<"/setplan", "x", "FREE">>}
    \cup {<<"/setplan", "2", p>> : p \in PlanWords}

\* int(parts[1]): the words that are numbers, and their values
IsInt(w) == w \in {"1", "2"}
ToInt(w) == IF w = "1" THEN 1 ELSE 2

\* /setplan without the test of the sender.
setplan_cmd_open(us, sender, parts) ==
    IF Len(parts) # 3 THEN us
    ELSE IF ~IsInt(parts[2]) THEN us
    ELSE IF Upper(parts[3]) \notin DOMAIN PLANS THEN us
    ELSE set_user_plan(us, ToInt(parts[2]), Upper(parts[3]))

\* setplan_cmd: the users table after the command
setplan_cmd(us, sender, parts) ==
    IF sender \notin ADMIN_IDS THEN us
    ELSE IF Len(parts) # 3 THEN us
    ELSE IF ~IsInt(parts[2]) THEN us
    ELSE IF Upper(parts[3]) \notin DOMAIN PLANS THEN us
    ELSE set_user_plan(us, ToInt(parts[2]), Upper(parts[3]))

\* setplan_cmd: the message.answer of the command
setplan_answer(sender, parts) ==
    IF sender \notin ADMIN_IDS THEN "NotAuthorized"
    ELSE IF Len(parts) # 3 THEN "Usage"
    ELSE IF ~IsInt(parts[2]) THEN "NotNumber"
    ELSE IF Upper(parts[3]) \notin DOMAIN PLANS THEN "InvalidPlan"
    ELSE "PlanSet"

SetplanCmd ==
    /\ \E sender \in UserIds, parts \in SetplanParts :
          users' = setplan_cmd(users, sender, parts)
    /\ UNCHANGED <<today, usage, req, accepted, cmd>>

\* The /setplan messages of the command handlers taken alone (SpecAdmin).
AdminParts ==
    {<<"/setplan">>, <<"/setplan", "2">>}
    \cup {<<"/setplan", t, p>> : t \in {"1", "2", "x"}, p \in {"FREE", "basic", "premium", "gold"}}

\* setplan_cmd, with the message and its answer kept on record.
SetplanLogged ==
    /\ \E sender \in UserIds, parts \in AdminParts :
          /\ users' = setplan_cmd(users, sender, parts)
          /\ cmd' = [sender |-> sender, parts |-> parts,
                     answer |-> setplan_answer(sender, parts)]
    /\ UNCHANGED <<today, usage, req, accepted>>

\* plan_text: what the /plan answer shows for user u on day d
plan_text(us, ug, u, d) ==
    LET plan == get_user_plan(ensure_user(us, u), u)
    IN [plan |-> plan,
        limit |-> PlanLimit(plan),
        used |-> get_usage_today(ug, u, d),
        docx |-> plan \in DOCX_PLANS]

\* plan_cmd: plan_text reads the plan (get_user_plan calls ensure_user) and
\* today's usage.
PlanCmd ==
    /\ \E u \in UserIds : users' = ensure_user(users, u)
    /\ UNCHANGED <<today, usage, req, accepted, cmd>>

\* Midnight UTC passes.
Tick ==
    /\ today < MaxDay
    /\ today' = today + 1
    /\ UNCHANGED <<users, usage, req, accepted, cmd>>

Next ==
    \/ \E r \in Reqs : Received(r)
    \/ \E r \in Reqs : DownloadFails(r)
    \/ \E r \in Reqs : Process(r)
    \/ \E r \in Reqs : SendTxt(r)
    \/ \E r \in Reqs : SendDocx(r)
    \/ SetplanCmd
    \/ PlanCmd
    \/ Tick

Spec == Init /\ [][Next]_vars

\* The command handlers alone on a fresh data.db, each /setplan on record.
NextAdmin ==
    \/ SetplanLogged
    \/ PlanCmd

SpecAdmin == Init /\ [][NextAdmin]_vars

\* A data.db written under another registry: init_db keeps the tables it
\* finds (CREATE TABLE IF NOT EXISTS), so user 1 starts with a stored plan
\* that may be no key of PLANS, in any case of letters.
StoredPlans == {"GOLD", "premium", "FREE"}

InitStored ==
    /\ today = 0
    /\ \E p \in StoredPlans : users = (1 :> p)
    /\ usage = <<>>
    /\ req = [r \in Reqs |-> Idle]
    /\ accepted = [k \in UserIds \X Days |-> 0]
    /\ cmd = NoCmd

\* The handlers without /setplan: the stored plans stay as they were found.
NextStored ==
    \/ \E r \in Reqs : Received(r)
    \/ \E r \in Reqs : DownloadFails(r)
    \/ \E r \in Reqs : Process(r)
    \/ \E r \in Reqs : SendTxt(r)
    \/ \E r \in Reqs : SendDocx(r)
    \/ PlanCmd
    \/ Tick

SpecStored == InitStored /\ [][NextStored]_vars

\* The bot started again during day 0 on the data.db of an earlier run, in
\* which user 2, on the PREMIUM plan, had a 10-page and a 1-page document
\* accepted: the tables are as that run left them, the handlers are new.
InitRestart ==
    /\ today = 0
    /\ users = (2 :> "PREMIUM")
    /\ usage = (<<2, 0>> :> 11)
    /\ req = [r \in Reqs |-> Idle]
    /\ accepted = [k \in UserIds \X Days |-> IF k = <<2, 0>> THEN 11 ELSE 0]
    /\ cmd = NoCmd

SpecRestart == InitRestart /\ [][Next]_vars

\* The shape of the state.
TypeOK ==
    /\ today \in Days
    /\ DOMAIN users \subseteq UserIds
    /\ DOMAIN usage \subseteq UserIds \X Days
    /\ \A k \in DOMAIN usage : usage[k] \in Nat
    /\ \A r \in Reqs : req[r].pc \in {"idle", "download", "send_txt", "send_docx"} \cup Outcomes
    /\ cmd.sender \in UserIds \cup {0}

\* ---------------------------------------------------------------- claims
\* The values handler r computes at lines 297-306 for document doc with the
\* clock at d1.
PlanOf(r) == get_user_plan(ensure_user(users, req[r].user), req[r].user)
LimitOf(r) == IF PlanOf(r) \in {"FREE", "BASIC", "STANDARD", "PREMIUM"}
              THEN CASE PlanOf(r) = "FREE" -> 10 [] PlanOf(r) = "BASIC" -> 50
                     [] PlanOf(r) = "STANDARD" -> 120 [] PlanOf(r) = "PREMIUM" -> 300
              ELSE 10
UsedOf(r, d1) == IF <<req[r].user, d1>> \in DOMAIN usage THEN usage[<<req[r].user, d1>>] ELSE 0
PagesOf(doc) == Len(doc.pages)
\* All pages of a readable document are blank.
IsBlank(doc) == doc.readable /\ \A i \in 1..Len(doc.pages) : \A j \in 1..Len(doc.pages[i]) :
                    doc.pages[i][j] \in {" ", "\n"}
NoArtifact(q) == ~q.txt /\ ~q.docx
\* The step takes handler r from the download to its quota decision.  The
\* formulas below say what holds of every such step, for every document doc
\* and clock readings d1, d2 it can be a step ProcessOn(r, doc, d1, d2) for
\* (a step that accepts leaves the clock at d2, one that rejects at d1).
Processed(r) == req[r].pc = "download" /\ req'[r].pc # "download"

\* C1: whenever a submission is accepted, the pages of all accepted
\* submissions of that user for that day, this one included, are within the
\* daily limit of the user's plan, under every interleaving of the handlers.
C1_AcceptedWithinLimit ==
    [][\A r \in Reqs : Processed(r) => \A doc \in Docs, d1 \in Days, d2 \in Days :
          (req'[r].pc = "send_txt" /\ d2 = today' /\ ProcessOn(r, doc, d1, d2))
          => accepted'[<<req[r].user, d2>>] <= LimitOf(r)]_vars

\* Two accepted submissions of one user are in flight and that user's usage
\* of the day is the sum of both.
C1_Witness ==
    \E r \in Reqs, q \in Reqs :
        /\ r # q
        /\ req[r].pc = "send_txt" /\ req[q].pc = "send_txt"
        /\ req[r].user = req[q].user
        /\ accepted[<<req[r].user, today>>] = 2

\* C2: a submission rejected by the quota check writes nothing: the usage
\* table is the same after it as before, and nothing was debited or sent.
C2_RejectedWritesNothing ==
    [][\A r \in Reqs : Processed(r) => \A doc \in Docs, d1 \in Days, d2 \in Days :
          (req'[r].pc = "QuotaExceeded" /\ d1 = today' /\ ProcessOn(r, doc, d1, d2))
          => /\ usage' = usage
             /\ UsedOf(r, d1) + PagesOf(doc) > LimitOf(r)
             /\ ~req'[r].debited /\ NoArtifact(req'[r])]_vars

\* A submission was rejected by the quota check while its user's usage of the
\* day is 10, the limit of FREE.
C2_Witness ==
    \E r \in Reqs, u \in UserIds :
        /\ req[r].pc = "QuotaExceeded"
        /\ u \in DOMAIN users /\ users[u] = "FREE"
        /\ <<u, today>> \in DOMAIN usage /\ usage[<<u, today>>] = 10
        /\ \A v \in UserIds : v # u => \A d \in Days : <<v, d>> \notin DOMAIN usage

\* C3: a document with pages whose text is all blank is rejected as
\* NoExtractableText, charges nothing and delivers nothing.
C3_BlankDocumentRejected ==
    [][\A r \in Reqs : Processed(r) => \A doc \in Docs, d1 \in Days, d2 \in Days :
          (IsBlank(doc) /\ PagesOf(doc) > 0 /\ ProcessOn(r, doc, d1, d2))
          => /\ req'[r].pc = "NoExtractableText"
             /\ usage' = usage]_vars

\* C4: a readable document is accepted exactly when the usage read by the
\* check plus its page count is at most the limit of the plan, and rejected
\* as QuotaExceeded otherwise.
C4_AcceptedIffWithinLimit ==
    [][\A r \in Reqs : Processed(r) => \A doc \in Docs, d1 \in Days, d2 \in Days :
          (doc.readable /\ today' \in {d1, d2} /\ ProcessOn(r, doc, d1, d2))
          => /\ req'[r].pc = "send_txt" <=> UsedOf(r, d1) + PagesOf(doc) <= LimitOf(r)
             /\ req'[r].pc = "QuotaExceeded" <=> UsedOf(r, d1) + PagesOf(doc) > LimitOf(r)]_vars

\* A submission of a FREE user was just accepted and the user's usage is
\* exactly the limit, while another submission was rejected by the quota.
C4_Witness ==
    \E r \in Reqs, q \in Reqs :
        /\ req[r].pc = "send_txt" /\ req[r].plan = "FREE"
        /\ accepted[<<req[r].user, today>>] = 10
        /\ req[q].pc = "QuotaExceeded"

\* C5: a handler that has sent a document has committed its debit before; a
\* handler that has not debited has sent nothing.
C5_DebitBeforeArtifact ==
    \A r \in Reqs : (req[r].txt \/ req[r].docx) => req[r].debited

\* A handler has sent both documents.
C5_Witness == \E r \in Reqs : req[r].txt /\ req[r].docx /\ req[r].debited

\* C6: a readable document with zero pages is rejected before the ledger: the
\* usage table is not written and the submission is not accepted.
C6_ZeroPagesRejected ==
    [][\A r \in Reqs : Processed(r) => \A doc \in Docs, d1 \in Days, d2 \in Days :
          (doc.readable /\ PagesOf(doc) = 0 /\ ProcessOn(r, doc, d1, d2))
          => /\ req'[r].pc \in Rejections
             /\ usage' = usage]_vars

\* C7: an accepted submission raises pages_used of <<user, day of the debit>>
\* by exactly the page count of the document and changes no other row.
C7_DebitIsPageCount ==
    [][\A r \in Reqs : Processed(r) => \A doc \in Docs, d1 \in Days, d2 \in Days :
          (req'[r].pc = "send_txt" /\ d2 = today' /\ ProcessOn(r, doc, d1, d2))
          => /\ DOMAIN usage' = DOMAIN usage \cup {<<req[r].user, d2>>}
             /\ usage'[<<req[r].user, d2>>] = UsedOf(r, d2) + PagesOf(doc)
             /\ \A k \in DOMAIN usage : k # <<req[r].user, d2>> => usage'[k] = usage[k]]_vars

\* A 10-page document was accepted on top of a 1-page one.
C7_Witness ==
    \E r \in Reqs :
        /\ req[r].pc = "send_txt"
        /\ <<req[r].user, today>> \in DOMAIN usage
        /\ usage[<<req[r].user, today>>] = 11

\* C8: a submission that ends as UnsupportedType or Unreadable leaves the
\* whole usage table as it was, with nothing debited and nothing sent.
C8_EarlyRejectionNoLedger ==
    [][\A r \in Reqs :
          (req[r].pc \in {"idle", "download"} /\ req'[r].pc \in {"UnsupportedType", "Unreadable"})
          => /\ usage' = usage
             /\ ~req'[r].debited /\ NoArtifact(req'[r])]_vars

\* One submission ended as UnsupportedType and another as Unreadable.
C8_Witness ==
    \E r \in Reqs, q \in Reqs :
        req[r].pc = "UnsupportedType" /\ req[q].pc = "Unreadable"

\* C9: the usage of every user and day is exactly the sum of the full page
\* counts of the accepted submissions: a request that stops before the debit
\* leaves no partial debit.
C9_NoPartialDebit ==
    /\ \A u \in UserIds, d \in Days : get_usage_today(usage, u, d) = accepted[<<u, d>>]
    /\ \A r \in Reqs : req[r].pc \in {"idle", "download"} \cup Rejections => ~req[r].debited

\* A request was abandoned before its debit while another one was accepted.
C9_Witness ==
    \E r \in Reqs, q \in Reqs, k \in UserIds \X Days :
        /\ req[r].pc = "Aborted" /\ ~req[r].debited
        /\ req[q].debited
        /\ accepted[k] = 10

\* C10: a submission that ends as Completed has sent the text document, and
\* the DOCX document exactly when the plan read by the handler is PREMIUM; on
\* any other plan no DOCX document is ever sent.
C10_DocxIffPremium ==
    [][\A r \in Reqs :
          /\ (req[r].pc # "Completed" /\ req'[r].pc = "Completed")
             => (req'[r].txt /\ (req'[r].docx <=> req[r].plan = "PREMIUM"))
          /\ (~req[r].docx /\ req'[r].docx) => req[r].plan = "PREMIUM"]_vars

\* One submission completed with both documents and another with the text
\* document alone.
C10_Witness ==
    \E r \in Reqs, q \in Reqs :
        /\ req[r].pc = "Completed" /\ req[r].txt /\ req[r].docx
        /\ req[q].pc = "Completed" /\ req[q].txt /\ ~req[q].docx

\* C11: a failure to build or to send the DOCX document after the debit is
\* not fatal: the handler ends as PartialSuccess with the text document
\* sent, no DOCX document, and the debit in place; the step of the failure
\* leaves the usage table as it was (no rollback, no second charge).
C11_DocxFailureNonFatal ==
    [][\A r \in Reqs :
          /\ (req[r].pc = "send_docx" /\ req'[r].pc # "send_docx")
             => /\ req'[r].pc \in {"Completed", "PartialSuccess"}
                /\ req'[r].txt /\ req'[r].debited
                /\ usage' = usage
          /\ (req[r].pc # "PartialSuccess" /\ req'[r].pc = "PartialSuccess")
             => /\ req[r].pc \in {"send_txt", "send_docx"}
                /\ req[r].plan = "PREMIUM"
                /\ req'[r].txt /\ ~req'[r].docx /\ req'[r].debited
                /\ usage' = usage]_vars

\* A handler ended as PartialSuccess after the only debit of the table, a
\* 10-page document, which is still there.
C11_Witness ==
    \E r \in Reqs, k \in UserIds \X Days :
        /\ req[r].pc = "PartialSuccess" /\ req[r].txt /\ ~req[r].docx /\ req[r].debited
        /\ DOMAIN usage = {k} /\ usage[k] = 10 /\ accepted[k] = 10

\* The plan word names no plan of the closed set, in any case of letters.
Unregistered(w) ==
    w \notin {"FREE", "free", "BASIC", "basic", "STANDARD", "standard", "PREMIUM", "premium"}
\* An administrator's /setplan of three words whose plan word is unregistered.
InvalidPlanMessage(sender, parts) ==
    sender \in ADMIN_IDS /\ Len(parts) = 3 /\ Unregistered(parts[3])

\* C12: an administrator's /setplan with a plan outside FREE, BASIC,
\* STANDARD, PREMIUM writes nothing: the users table is the same after it (no
\* row created, no plan changed) and, the target being a number, the answer
\* is InvalidPlan; set_user_plan itself writes nothing for such a plan.
C12_InvalidPlanNoWrite ==
    /\ [](\A u \in UserIds, w \in {"gold", "GOLD", ""} : set_user_plan(users, u, w) = users)
    /\ [](\A sender \in UserIds, parts \in AdminParts :
             InvalidPlanMessage(sender, parts)
             => /\ setplan_cmd(users, sender, parts) = users
                /\ parts[2] \in {"1", "2"} => setplan_answer(sender, parts) = "InvalidPlan")
    /\ [][(cmd' # cmd /\ InvalidPlanMessage(cmd'.sender, cmd'.parts))
           => /\ users' = users
              /\ cmd'.parts[2] \in {"1", "2"} => cmd'.answer = "InvalidPlan"]_vars

\* The administrator's "/setplan 2 gold" was answered InvalidPlan: user 2
\* keeps the PREMIUM plan set before and user 1 still has no row.
C12_Witness ==
    /\ cmd = [sender |-> 1, parts |-> <<"/setplan", "2", "gold">>, answer |-> "InvalidPlan"]
    /\ DOMAIN users = {2} /\ users[2] = "PREMIUM"

\* User u has a row whose stored plan is in no case of letters a plan of the
\* registry.
StoredUnknown(u) == u \in DOMAIN users /\ Unregistered(users[u])

\* C13: for a user whose stored plan is not in the registry, the /plan answer
\* shows the FREE limit, 10, and no DOCX export; the quota check accepts a
\* readable document exactly when usage plus pages is at most 10 and rejects
\* it as QuotaExceeded otherwise; the accepted submission gets no DOCX
\* document.
C13_UnknownPlanIsFree ==
    /\ [](\A u \in UserIds : StoredUnknown(u)
             => /\ plan_text(users, usage, u, today).limit = 10
                /\ ~plan_text(users, usage, u, today).docx)
    /\ [][\A r \in Reqs : Processed(r) => \A doc \in Docs, d1 \in Days, d2 \in Days :
             (doc.readable /\ today' \in {d1, d2} /\ StoredUnknown(req[r].user)
                /\ ProcessOn(r, doc, d1, d2))
             => /\ req'[r].pc = "send_txt" <=> UsedOf(r, d1) + PagesOf(doc) <= 10
                /\ req'[r].pc = "QuotaExceeded" <=> UsedOf(r, d1) + PagesOf(doc) > 10
                /\ req'[r].pc = "send_txt" => Unregistered(req'[r].plan)]_vars
    /\ [][\A r \in Reqs :
             (req[r].pc = "send_txt" /\ Unregistered(req[r].plan) /\ req'[r].pc # "send_txt")
             => req'[r].pc \in {"Completed", "Aborted"} /\ ~req'[r].docx]_vars

\* User 1, stored with the plan GOLD, is the only user: a 10-page submission
\* completed with the text document alone and the next one was rejected by
\* the quota.
C13_Witness ==
    /\ DOMAIN users = {1} /\ users[1] = "GOLD"
    /\ <<1, today>> \in DOMAIN usage /\ usage[<<1, today>>] = 10
    /\ \E r \in Reqs, q \in Reqs :
          /\ req[r].pc = "Completed" /\ req[r].txt /\ ~req[r].docx
          /\ req[q].pc = "QuotaExceeded"

\* The step is a /setplan of an administrator that sets a plan.
PlanSetStep ==
    /\ req' = req /\ usage' = usage
    /\ \E sender \in ADMIN_IDS, parts \in SetplanParts :
          /\ setplan_answer(sender, parts) = "PlanSet"
          /\ users' = setplan_cmd(users, sender, parts)

\* C14: ensure_user is idempotent: on a user with a row it changes nothing,
\* on a user without one it adds the row with plan FREE and touches no other
\* row, and a second call changes nothing more.  No step deletes a row, and
\* a step that changes a stored plan, or creates a row with another plan
\* than FREE, is an administrator's /setplan: submissions and /plan never
\* change a plan.
C14_EnsureUserIdempotent ==
    /\ [](\A u \in UserIds :
             /\ ensure_user(ensure_user(users, u), u) = ensure_user(users, u)
             /\ u \in DOMAIN users => ensure_user(users, u) = users
             /\ u \notin DOMAIN users
                => /\ DOMAIN ensure_user(users, u) = DOMAIN users \cup {u}
                   /\ ensure_user(users, u)[u] = "FREE"
                   /\ \A v \in DOMAIN users : ensure_user(users, u)[v] = users[v])
    /\ [][\A u \in UserIds :
             /\ u \in DOMAIN users => u \in DOMAIN users'
             /\ (u \in DOMAIN users /\ users'[u] # users[u]) => PlanSetStep
             /\ (u \notin DOMAIN users /\ u \in DOMAIN users' /\ users'[u] # "FREE")
                => PlanSetStep]_vars

\* User 2 was set to PREMIUM and then seen again by ensure_user: a submission
\* of user 2 read the plan PREMIUM, which is still the stored one, and user 1
\* was created on the FREE plan.
C14_Witness ==
    /\ DOMAIN users = {1, 2} /\ users[1] = "FREE" /\ users[2] = "PREMIUM"
    /\ \E r \in Reqs :
          req[r].pc = "send_txt" /\ req[r].user = 2 /\ req[r].plan = "PREMIUM"

\* C15: the check and the debit of an accepted submission use one and the
\* same <<user, day>> key: the record the debit was added to holds afterwards
\* the usage the check read plus the pages of the document.
C15_CheckAndDebitSameDay ==
    [][\A r \in Reqs : Processed(r) => \A doc \in Docs, d1 \in Days, d2 \in Days :
          (req'[r].pc = "send_txt" /\ d2 = today' /\ ProcessOn(r, doc, d1, d2))
          => usage'[<<req[r].user, d2>>] = UsedOf(r, d1) + PagesOf(doc)]_vars

\* C16: every stored pages_used is a non-negative integer; no step deletes a
\* usage record or lowers its value.
C16_UsageMonotone ==
    /\ [](\A k \in DOMAIN usage : usage[k] \in Nat)
    /\ [][\A k \in DOMAIN usage :
             k \in DOMAIN usage' /\ usage'[k] >= usage[k]]_vars

\* User 1 used 10 pages on day 0 and 1 page on day 1: the record of day 0 is
\* kept as it was when the day rolled over.
C16_Witness ==
    /\ today = 1
    /\ usage = (<<1, 0>> :> 10 @@ <<1, 1>> :> 1)

\* C17: every plan stored in the users table is one of FREE, BASIC,
\* STANDARD, PREMIUM, after any sequence of first sights of users,
\* submissions and /setplan commands, valid or not, on a fresh database.
C17_StoredPlansRegistered ==
    \A u \in DOMAIN users : users[u] \in {"FREE", "BASIC", "STANDARD", "PREMIUM"}

\* User 1 was created at first sight, user 2 was set to PREMIUM by /setplan,
\* and a submission has completed with both documents since.
C17_Witness ==
    /\ DOMAIN users = {1, 2} /\ users[1] = "FREE" /\ users[2] = "PREMIUM"
    /\ \E r \in Reqs : req[r].pc = "Completed" /\ req[r].docx

\* User v has the same row of users and the same rows of usage after the
\* step as before.
SameLedgerOf(v) ==
    /\ v \in DOMAIN users <=> v \in DOMAIN users'
    /\ v \in DOMAIN users => users'[v] = users[v]
    /\ \A d \in Days :
          /\ <<v, d>> \in DOMAIN usage <=> <<v, d>> \in DOMAIN usage'
          /\ <<v, d>> \in DOMAIN usage => usage'[<<v, d>>] = usage[<<v, d>>]

\* C18: every step of a handle_document coroutine, whatever it leads to,
\* leaves the plan and the usage records of every user other than the
\* sender of that submission as they were.
C18_OtherUsersUntouched ==
    [][\A r \in Reqs : req'[r] # req[r]
          => \E u \in UserIds :
                /\ req[r].user # 0 => u = req[r].user
                /\ req'[r].pc = "download" => u = req'[r].user
                /\ \A v \in UserIds \ {u} : SameLedgerOf(v)]_vars

\* Submissions of users 1 and 2 are in flight together, both accepted: each
\* user's record holds that user's pages alone.
C18_Witness ==
    /\ \E r \in Reqs, q \in Reqs :
          /\ req[r].pc = "send_txt" /\ req[r].user = 1
          /\ req[q].pc = "send_txt" /\ req[q].user = 2
    /\ usage = (<<1, today>> :> 10 @@ <<2, today>> :> 1)

\* C19: a /setplan of a sender who is not in ADMIN_IDS, whatever its words,
\* leaves the users table as it was (no plan changed, no row created for the
\* target) and is answered NotAuthorized.
C19_NonAdminSetplanNoChange ==
    /\ [](\A sender \in UserIds \ ADMIN_IDS, parts \in AdminParts :
             setplan_cmd(users, sender, parts) = users)
    /\ [][(cmd' # cmd /\ cmd'.sender \notin ADMIN_IDS)
           => users' = users /\ cmd'.answer = "NotAuthorized"]_vars

\* User 2, no administrator and on the FREE plan, sent "/setplan 1 premium":
\* it was answered NotAuthorized, user 2 is still FREE and user 1 has no row.
C19_Witness ==
    /\ cmd = [sender |-> 2, parts |-> <<"/setplan", "1", "premium">>, answer |-> "NotAuthorized"]
    /\ DOMAIN users = {2} /\ users[2] = "FREE"

\* C20: a step that changes a stored plan changes no usage record; a
\* readable document, of any page count, submitted while the usage of the
\* day read by the check is above the limit of the user's plan is rejected
\* as QuotaExceeded and the usage table stays as it was.
C20_DowngradeKeepsUsage ==
    /\ [][(\E u \in DOMAIN users : u \in DOMAIN users' /\ users'[u] # users[u])
           => usage' = usage]_vars
    /\ [][\A r \in Reqs : Processed(r) => \A doc \in Docs, d1 \in Days, d2 \in Days :
             (doc.readable /\ today' \in {d1, d2} /\ UsedOf(r, d1) > LimitOf(r)
                /\ ProcessOn(r, doc, d1, d2))
             => req'[r].pc = "QuotaExceeded" /\ usage' = usage]_vars

\* User 2, the only user, was set from PREMIUM to FREE with 11 pages used
\* today: both submissions made since were rejected by the quota and the
\* usage is still 11.
C20_Witness ==
    /\ today = 0
    /\ DOMAIN users = {2} /\ users[2] = "FREE"
    /\ usage = (<<2, 0>> :> 11)
    /\ \A r \in Reqs : req[r].pc = "QuotaExceeded"

====
